---- MODULE Spec2Model ----
(***************************************************************************)
(* Supervisors.AUV.Safety: the safety supervisor task of DUNE.             *)
(*                                                                         *)
(* The task is a periodic task.  Its state is the fields of struct Task;   *)
(* each consume() handler and each call of task() is one atomic step       *)
(* (single-threaded cooperative runtime).  Time is advanced by a separate  *)
(* step that ages the two Counter timers.                                  *)
(***************************************************************************)
EXTENDS Integers, Sequences, FiniteSets, TLC

\* ------------------------------------------------------------------ bounds
\* Seconds of wall-clock time that pass in one Advance step.
TimeStep == 30
\* Largest distance to the safety position reported by a position update.
MaxDist == 51

\* ------------------------------------------------------- program constants
c_fail_timeout == 60
c_safety_dist == 50

GOT_NOTHING == 0
GOT_VSTATE == 1
GOT_MEDIUM == 2
GOT_PCS == 4
GOT_ALL == 7

\* Console role bit tested on the source address of a heartbeat (0x4000).
CONSOLE_BIT == 16384
\* Minimum and default of the "Lost Comms Timeout" parameter.
MinTimeout == 60

\* ------------------------------------------------------------ input domains
\* IMC::VehicleState::op_mode
OpModes == {"VS_SERVICE", "VS_ERROR", "VS_MANEUVER", "VS_BOOT"}
\* IMC::VehicleMedium::medium as the spec's Medium enumeration
Mediums == {"unknown", "air", "water", "underwater"}
\* IMC::PlanControlState::state
PcsStates == {"PCS_BLOCKED", "PCS_READY", "PCS_EXECUTING"}
\* IMC::PlanControlState::last_outcome
Outcomes == {"LPO_NONE", "LPO_FAILURE"}
\* IMC addresses: a vehicle (no console bit) and two consoles.
Sources == {21, CONSOLE_BIT + 1, CONSOLE_BIT + 2}
\* Identity of the supervisor's own system: one that carries the console
\* bit, so that its own heartbeat is refused by the first test alone.
SystemIds == {CONSOLE_BIT + 1}
\* Values of the "Lost Comms Timeout" parameter: one above the minimum, so
\* that the two timers have different tops.
Timeouts == {MinTimeout + TimeStep}
\* Distances (result of WGS84::distance) a position update may yield.
Dists == {c_safety_dist, MaxDist}

Min(a, b) == IF a < b THEN a ELSE b

\* BitOr written as an assignment of the bit.
BitOr_Assign(a, bit) == bit

\* a | bit, for a single-bit mask
BitOr(a, bit) == IF (a \div bit) % 2 = 1 THEN a ELSE a + bit
\* (a & bit) != 0, for a single-bit mask
BitSet(a, bit) == (a \div bit) % 2 = 1

VARIABLES
    m_lost_coms_timer,  \* elapsed seconds since the last reset
    m_fail_timer,       \* elapsed seconds since the last reset
    m_medium,           \* medium held by the MediumHandler
    m_serv_err,
    m_pcs,              \* [state, last_outcome]
    m_dr,
    m_is_near,
    m_issued,
    m_safety,
    m_args,             \* [timeout, sk, asc]
    system_id,          \* getSystemId()
    entity_state,       \* code last given to setEntityState
    out,                \* plan ids dispatched by the last step
    ev,                 \* the last step taken, with what it saw before
    h_seen,             \* signal kinds consumed so far (history)
    h_dist,             \* distance of the last position update, -1 if none
    h_zone,             \* safety_zone dispatched, no external PlanControl since
    h_hold,             \* hold plan dispatched, no external PlanControl since
    h_retry             \* seconds since the last safety_sk or safety_surface
                        \* dispatch (up to c_fail_timeout), -1 if none

vars == <<m_lost_coms_timer, m_fail_timer, m_medium, m_serv_err, m_pcs, m_dr,
          m_is_near, m_issued, m_safety, m_args, system_id,
          entity_state, out, ev, h_seen, h_dist, h_zone, h_hold, h_retry>>

\* The fields of struct Task (and the reported entity state).
state == <<m_lost_coms_timer, m_fail_timer, m_medium, m_serv_err, m_pcs, m_dr,
           m_is_near, m_issued, m_safety, m_args, system_id,
           entity_state>>

\* The record of a step: the handler, the source address of its message (0
\* when the handler reads none), the op_mode of its message ("" when it
\* reads none), whether a field of the task changed, for the handlers that
\* may reset the lost communications timer on a message, the timer before
\* the step, and for task() the time since the last escalated hold plan.
Event(op, src, mode) ==
    [op |-> op, src |-> src, mode |-> mode, changed |-> state' # state,
     was_lost |-> IF op \in {"Heartbeat", "VehicleMedium"}
                  THEN m_lost_coms_timer ELSE 0,
     was_retry |-> IF op = "task" THEN h_retry ELSE -1]

\* ---------------------------------------------------------- Counter<T>
\* overflow(): elapsed time has reached the top.
Overflow(elapsed, top) == elapsed >= top
\* reset(): elapsed time is zero again.
Reset == 0
\* Elapsed time after dt more seconds; it saturates at the top, where
\* overflow() no longer changes.
Elapse(elapsed, top, dt) == Min(elapsed + dt, top)

\* ---------------------------------------------------------- MediumHandler
inWater(medium) == medium \in {"water", "underwater"}
isUnderwater(medium) == medium = "underwater"

\* ------------------------------------------------------------- construction
\* Task::Task, onUpdateParameters and onResourceInitialization have run.
Init ==
    /\ m_lost_coms_timer = Reset
    /\ m_fail_timer = Reset
    /\ m_medium = "unknown"
    /\ m_serv_err = FALSE
    /\ m_pcs = [state |-> "PCS_BLOCKED", last_outcome |-> "LPO_NONE"]
    /\ m_dr = GOT_NOTHING
    /\ m_is_near = TRUE
    /\ m_issued = FALSE
    /\ m_safety = FALSE
    /\ m_args \in [timeout : Timeouts, sk : BOOLEAN, asc : BOOLEAN]
    /\ system_id \in SystemIds
    /\ entity_state = "CODE_IDLE"
    /\ out = <<>>
    /\ ev = [op |-> "init", src |-> 0, mode |-> "", changed |-> FALSE,
             was_lost |-> 0, was_retry |-> -1]
    /\ h_seen = {}
    /\ h_dist = -1
    /\ h_zone = FALSE
    /\ h_hold = FALSE
    /\ h_retry = -1

\* ------------------------------------------------------------------ consume
\* NearAt with the threshold itself counted as far.
NearAt_Strict(dist) == IF dist >= c_safety_dist THEN FALSE ELSE TRUE

\* m_is_near for a position at dist from the safety position (0, 0).
NearAt(dist) == IF dist > c_safety_dist THEN FALSE ELSE TRUE

\* consume(const IMC::EstimatedState*): dist is WGS84::distance to (0, 0).
ConsumeEstimatedState(dist) ==
    /\ m_is_near' = NearAt(dist)
    /\ h_dist' = dist
    /\ out' = <<>>
    /\ UNCHANGED <<m_lost_coms_timer, m_fail_timer, m_medium, m_serv_err,
                   m_pcs, m_dr, m_issued, m_safety, m_args, system_id,
                   entity_state, h_seen, h_zone,
                   h_hold, h_retry>>
    /\ ev' = Event("EstimatedState", 0, "")

\* HeartbeatCounts without the test for the vehicle's own heartbeat.
HeartbeatCounts_NoSelf(src) == BitSet(src, CONSOLE_BIT)

\* The heartbeat is one the handler does not return early on.
HeartbeatCounts(src) == src # system_id /\ BitSet(src, CONSOLE_BIT)

\* consume(const IMC::Heartbeat*)
ConsumeHeartbeat(src) ==
    /\ m_lost_coms_timer' = IF HeartbeatCounts(src) THEN Reset
                            ELSE m_lost_coms_timer
    /\ out' = <<>>
    /\ UNCHANGED <<m_fail_timer, m_medium, m_serv_err, m_pcs, m_dr,
                   m_is_near, m_issued, m_safety, m_args, system_id,
                   entity_state, h_seen, h_dist, h_zone,
                   h_hold, h_retry>>
    /\ ev' = Event("Heartbeat", src, "")

\* PlanControlIsExternal that takes every plan command for its own.
PlanControlIsExternal_Never(src) == FALSE

\* PlanControlIsExternal without the comparison of the source.
PlanControlIsExternal_Any(src) == TRUE

\* The plan command comes from another system.
PlanControlIsExternal(src) == src # system_id

\* consume(const IMC::PlanControl*)
ConsumePlanControl(src) ==
    /\ IF PlanControlIsExternal(src)
       THEN m_issued' = FALSE /\ m_safety' = FALSE
       ELSE UNCHANGED <<m_issued, m_safety>>
    /\ h_zone' = IF src # system_id THEN FALSE ELSE h_zone
    /\ h_hold' = IF src # system_id THEN FALSE ELSE h_hold
    /\ out' = <<>>
    /\ UNCHANGED <<m_lost_coms_timer, m_fail_timer, m_medium, m_serv_err,
                   m_pcs, m_dr, m_is_near, m_args, system_id,
                   entity_state, h_seen, h_dist,
                   h_retry>>
    /\ ev' = Event("PlanControl", src, "")

\* consume(const IMC::PlanControlState*)
ConsumePlanControlState(st, lo) ==
    /\ m_dr' = BitOr(m_dr, GOT_PCS)
    /\ m_pcs' = [state |-> st, last_outcome |-> lo]
    /\ h_seen' = h_seen \cup {"pcs"}
    /\ out' = <<>>
    /\ UNCHANGED <<m_lost_coms_timer, m_fail_timer, m_medium, m_serv_err,
                   m_is_near, m_issued, m_safety, m_args, system_id,
                   entity_state, h_dist, h_zone,
                   h_hold, h_retry>>
    /\ ev' = Event("PlanControlState", 0, "")

\* VStateCounts that counts a booting vehicle too.
VStateCounts_Boot(op_mode) == TRUE

\* The op_mode sets the GOT_VSTATE bit.
VStateCounts(op_mode) == op_mode # "VS_BOOT"

\* consume(const IMC::VehicleState*)
ConsumeVehicleState(op_mode) ==
    /\ m_dr' = IF VStateCounts(op_mode) THEN BitOr(m_dr, GOT_VSTATE) ELSE m_dr
    /\ m_serv_err' = (op_mode = "VS_SERVICE" \/ op_mode = "VS_ERROR")
    /\ h_seen' = IF op_mode # "VS_BOOT" THEN h_seen \cup {"vstate"} ELSE h_seen
    /\ out' = <<>>
    /\ UNCHANGED <<m_lost_coms_timer, m_fail_timer, m_medium, m_pcs,
                   m_is_near, m_issued, m_safety, m_args, system_id,
                   entity_state, h_dist, h_zone,
                   h_hold, h_retry>>
    /\ ev' = Event("VehicleState", 0, op_mode)

\* LostComsAfterMedium with inWater() in place of isUnderwater().
LostComsAfterMedium_InWater(medium) ==
    IF inWater(medium) THEN Reset ELSE m_lost_coms_timer

\* The lost communications timer after a medium update.
LostComsAfterMedium(medium) ==
    IF isUnderwater(medium) THEN Reset ELSE m_lost_coms_timer

\* consume(const IMC::VehicleMedium*)
ConsumeVehicleMedium(medium) ==
    /\ m_dr' = BitOr(m_dr, GOT_MEDIUM)
    /\ m_medium' = medium
    /\ m_lost_coms_timer' = LostComsAfterMedium(medium)
    /\ h_seen' = h_seen \cup {"medium"}
    /\ out' = <<>>
    /\ UNCHANGED <<m_fail_timer, m_serv_err, m_pcs, m_is_near,
                   m_issued, m_safety, m_args, system_id, entity_state,
                   h_dist, h_zone,
                   h_hold, h_retry>>
    /\ ev' = Event("VehicleMedium", 0, "")

\* --------------------------------------------------------------- predicates
\* isIdle()
isIdle == m_pcs.state = "PCS_BLOCKED" \/ m_pcs.state = "PCS_READY"

\* hasFailed()
hasFailed == m_pcs.last_outcome = "LPO_FAILURE"

\* isNear()
isNear == m_is_near

\* isSafe that takes a lost link for safe whatever the vehicle does.
isSafe_LinkIgnored ==
    IF isNear THEN TRUE
    ELSE IF m_safety THEN TRUE
    ELSE TRUE

\* isSafe with a self imposed plan taken as proof of safety.
isSafe_IssuedIsSafe ==
    IF isNear THEN TRUE
    ELSE IF m_safety THEN TRUE
    ELSE IF ~Overflow(m_lost_coms_timer, m_args.timeout) THEN TRUE
    ELSE IF m_serv_err /\ isIdle THEN FALSE
    ELSE TRUE

\* isSafe()
isSafe ==
    IF isNear THEN TRUE
    ELSE IF m_safety THEN TRUE
    ELSE IF ~Overflow(m_lost_coms_timer, m_args.timeout) THEN TRUE
    ELSE IF m_serv_err /\ isIdle THEN FALSE
    ELSE IF m_issued THEN FALSE
    ELSE TRUE

\* --------------------------------------------------------------------- task
\* TaskGuard that lets a tick through once any data has come.
TaskGuard_AnyData == m_dr # GOT_NOTHING /\ inWater(m_medium)

\* TaskGuard without the test of the medium.
TaskGuard_NoWaterCheck == m_dr = GOT_ALL

\* Both guards at the head of task() let the tick through.
TaskGuard == m_dr = GOT_ALL /\ inWater(m_medium)

\* TaskReturn that marks a command as issued all the same.
TaskReturn_Issued ==
    /\ out' = <<>>
    /\ m_issued' = TRUE
    /\ UNCHANGED entity_state

\* The tick returns with nothing dispatched.
TaskReturn ==
    /\ out' = <<>>
    /\ UNCHANGED <<m_issued, entity_state>>

\* The tick reaches the dispatch at the end of task() with plan_id.
TaskDispatch(plan_id) ==
    /\ m_issued' = TRUE
    /\ out' = <<plan_id>>
    /\ entity_state' = "CODE_ACTIVE"

\* PlanPrefix with the separator of the identifier left out.
PlanPrefix_NoSeparator == IF hasFailed THEN "safety" ELSE ""

\* PlanPrefix that never escalates.
PlanPrefix_Never == ""

\* m_pg.plan_id before the medium is looked at: "safety_" after a failure.
PlanPrefix == IF hasFailed THEN "safety_" ELSE ""

\* FailTimerOverflow that never makes a tick wait.
FailTimerOverflow_NoWait == TRUE

\* The fail timer lets a tick through after a failure.
FailTimerOverflow == Overflow(m_fail_timer, c_fail_timeout)

\* TaskHold that leaves the fail timer running after a failure.
TaskHold_NoReset ==
    IF hasFailed /\ ~FailTimerOverflow
    THEN UNCHANGED m_fail_timer /\ TaskReturn
    ELSE /\ UNCHANGED m_fail_timer
         /\ IF isUnderwater(m_medium)
            THEN IF ~m_args.asc
                 THEN TaskReturn
                 ELSE TaskDispatch(PlanPrefix \o "surface")
            ELSE IF ~m_args.sk
                 THEN TaskReturn
                 ELSE TaskDispatch(PlanPrefix \o "sk")

\* task(), from m_pg.plan_id.clear() on
TaskHold ==
    IF hasFailed /\ ~FailTimerOverflow
    THEN UNCHANGED m_fail_timer /\ TaskReturn
    ELSE /\ m_fail_timer' = IF hasFailed THEN Reset ELSE m_fail_timer
         /\ IF isUnderwater(m_medium)
            THEN IF ~m_args.asc
                 THEN TaskReturn
                 ELSE TaskDispatch(PlanPrefix \o "surface")
            ELSE IF ~m_args.sk
                 THEN TaskReturn
                 ELSE TaskDispatch(PlanPrefix \o "sk")

\* GoToSafety that also marks a command as issued.
GoToSafety_Issued ==
    /\ m_lost_coms_timer' = Reset
    /\ m_safety' = TRUE
    /\ m_issued' = TRUE
    /\ out' = <<"safety_zone">>
    /\ h_zone' = TRUE
    /\ UNCHANGED <<m_fail_timer, entity_state>>

\* GoToSafety that leaves m_safety as it was.
GoToSafety_NoFlag ==
    /\ m_lost_coms_timer' = Reset
    /\ out' = <<"safety_zone">>
    /\ h_zone' = TRUE
    /\ UNCHANGED <<m_safety, m_fail_timer, m_issued, entity_state>>

\* goToSafety(), after the reset of the lost communications timer
GoToSafety ==
    /\ m_lost_coms_timer' = Reset
    /\ m_safety' = TRUE
    /\ out' = <<"safety_zone">>
    /\ h_zone' = TRUE
    /\ UNCHANGED <<m_fail_timer, m_issued, entity_state>>

\* NoHoldConfigured that never holds the tick back.
NoHoldConfigured_Dropped == FALSE

\* Neither keep station nor ascend is configured.
NoHoldConfigured == ~m_args.sk /\ ~m_args.asc

\* task()
Task ==
    /\ UNCHANGED <<m_medium, m_serv_err, m_pcs, m_dr, m_is_near, m_args,
                   system_id, h_seen, h_dist>>
    /\ IF ~TaskGuard
       THEN /\ TaskReturn
            /\ UNCHANGED <<m_lost_coms_timer, m_fail_timer, m_safety, h_zone>>
       ELSE IF ~isSafe
       THEN GoToSafety
       ELSE /\ UNCHANGED <<m_lost_coms_timer, m_safety, h_zone>>
            /\ IF NoHoldConfigured \/ ~m_serv_err \/ ~isIdle
               THEN TaskReturn /\ UNCHANGED m_fail_timer
               ELSE TaskHold
    /\ h_hold' = IF out' # <<>> /\ out' # <<"safety_zone">> THEN TRUE
                 ELSE h_hold
    /\ h_retry' = IF out' \in {<<"safety_sk">>, <<"safety_surface">>} THEN 0
                  ELSE h_retry
    /\ ev' = Event("task", 0, "")

\* --------------------------------------------------------------------- time
\* TimeStep seconds pass: both counters age.
Advance ==
    /\ m_lost_coms_timer' = Elapse(m_lost_coms_timer, m_args.timeout, TimeStep)
    /\ m_fail_timer' = Elapse(m_fail_timer, c_fail_timeout, TimeStep)
    /\ out' = <<>>
    /\ UNCHANGED <<m_medium, m_serv_err, m_pcs, m_dr, m_is_near,
                   m_issued, m_safety, m_args, system_id, entity_state,
                   h_seen, h_dist, h_zone,
                   h_hold>>
    /\ h_retry' = IF h_retry = -1 THEN -1
                  ELSE Min(h_retry + TimeStep, c_fail_timeout)
    /\ ev' = Event("advance", 0, "")

Next ==
    \/ \E dist \in Dists : ConsumeEstimatedState(dist)
    \/ \E src \in Sources : ConsumeHeartbeat(src)
    \/ \E src \in Sources : ConsumePlanControl(src)
    \/ \E st \in PcsStates, lo \in Outcomes : ConsumePlanControlState(st, lo)
    \/ \E op_mode \in OpModes : ConsumeVehicleState(op_mode)
    \/ \E medium \in Mediums : ConsumeVehicleMedium(medium)
    \/ Task
    \/ Advance

Spec == Init /\ [][Next]_vars

\* Construction with the default configuration: keep station and ascend
\* with actuation both enabled.
LiveInit == Init /\ m_args.sk /\ m_args.asc

\* The scheduler keeps calling the periodic task() and the clock keeps
\* running.
LiveSpec == LiveInit /\ [][Next]_vars /\ WF_vars(Task) /\ WF_vars(Advance)

\* ================================================================== claims
\* Vocabulary of the claims, stated on the fields directly.
AllSeen == h_seen = {"vstate", "medium", "pcs"}
LostCommsOverflowed == m_lost_coms_timer >= m_args.timeout
FailRetryOverflowed == m_fail_timer >= c_fail_timeout
PhaseIdle == m_pcs.state \in {"PCS_BLOCKED", "PCS_READY"}
LastOutcomeFailure == m_pcs.last_outcome = "LPO_FAILURE"
\* The tick about to run passes the guard of the decision engine.
PassesGuard == AllSeen /\ m_medium \in {"water", "underwater"}
\* The combination of C2 under which the verdict is unsafe.
UnsafeVerdict ==
    /\ ~m_is_near
    /\ ~m_safety
    /\ LostCommsOverflowed
    /\ (m_serv_err /\ PhaseIdle) \/ m_issued
\* The medium and the configuration flag allow a hold plan.
HoldAllowed ==
    \/ m_medium = "underwater" /\ m_args.asc
    \/ m_medium = "water" /\ m_args.sk
\* The hold plan identifier of C4.
HoldPlanId ==
    (IF LastOutcomeFailure THEN "safety_" ELSE "")
        \o (IF m_medium = "underwater" THEN "surface" ELSE "sk")

\* C1: no plan request is dispatched on a tick where the readiness set is
\* incomplete, i.e. before a non-booting vehicle state, a medium and a plan
\* control state have all been consumed.
C1_NoDispatchBeforeReady == ~AllSeen => out = <<>>

\* A tick ran with the medium still missing (scenario A) while every other
\* condition for a dispatch held.
C1_Witness ==
    /\ ev.op = "task"
    /\ h_seen = {"vstate", "pcs"}
    /\ m_serv_err /\ PhaseIdle /\ ~m_is_near /\ LostCommsOverflowed
    /\ out = <<>>

\* C2: on a tick that passes the guard, safety_zone is dispatched if and
\* only if the vehicle is not near, safety mode is not active, the lost comms
\* timer has overflowed and (service-or-error and idle, or command issued).
C2_UnsafeIffSafetyZone ==
    [][(ev'.op = "task" /\ PassesGuard) =>
           ((out' = <<"safety_zone">>) <=> UnsafeVerdict)]_vars

\* safety_zone was dispatched on the strength of command-issued alone.
C2_Witness ==
    /\ ev.op = "task"
    /\ out = <<"safety_zone">>
    /\ m_issued
    /\ ~(m_serv_err /\ PhaseIdle)

\* C3: once safety_zone has been dispatched, no later tick dispatches it
\* again until a plan command of another system has been consumed.
C3_SafetyZoneOnce ==
    [][(h_zone /\ ev'.op = "task") => out' # <<"safety_zone">>]_vars

\* A tick ran with safety_zone outstanding while the vehicle was far, the
\* link lost and the vehicle idle in service or error.
C3_Witness ==
    /\ ev.op = "task"
    /\ h_zone
    /\ PassesGuard
    /\ ~m_is_near /\ LostCommsOverflowed /\ m_serv_err /\ PhaseIdle

\* C4: on a guarded tick with a safe verdict a hold plan is dispatched if and
\* only if service-or-error, idle, (no failure or fail-retry overflowed) and
\* the medium's flag is enabled; its identifier is the prefix for a failure
\* followed by surface or sk, and command-issued is true afterwards.
C4_HoldPlanIff ==
    [][(ev'.op = "task" /\ PassesGuard /\ ~UnsafeVerdict) =>
           /\ (out' # <<>>) <=>
                  /\ m_serv_err
                  /\ PhaseIdle
                  /\ ~LastOutcomeFailure \/ FailRetryOverflowed
                  /\ HoldAllowed
           /\ (out' # <<>>) => (out' = <<HoldPlanId>> /\ m_issued')]_vars

\* A tick dispatched the escalated keep-station plan.
C4_Witness ==
    /\ ev.op = "task"
    /\ out = <<"safety_sk">>
    /\ m_issued
    /\ m_medium = "water"

\* C5: after a failure, with every other condition for a hold plan true,
\* nothing is dispatched while the fail-retry timer has not overflowed; once
\* it has, the tick resets it and dispatches safety_surface or safety_sk.
C5_FailureBackoff ==
    [][(/\ ev'.op = "task"
        /\ PassesGuard /\ ~UnsafeVerdict
        /\ m_serv_err /\ PhaseIdle /\ HoldAllowed
        /\ LastOutcomeFailure) =>
           IF ~FailRetryOverflowed
           THEN out' = <<>>
           ELSE /\ m_fail_timer' = 0
                /\ out' = <<IF m_medium = "underwater"
                            THEN "safety_surface" ELSE "safety_sk">>]_vars

\* A tick escalated to safety_surface and restarted the fail-retry timer.
C5_Witness ==
    /\ ev.op = "task"
    /\ out = <<"safety_surface">>
    /\ LastOutcomeFailure
    /\ m_fail_timer = 0

\* Every field of the task but the lost communications timer.
state_but_lost == <<m_fail_timer, m_medium, m_serv_err, m_pcs, m_dr,
                    m_is_near, m_issued, m_safety, m_args, system_id,
                    entity_state>>
\* The sender of the heartbeat carries the console role bit 0x4000.
HasConsoleBit(src) == (src \div 16384) % 2 = 1

\* C6: a plan command of another system sets command-issued and
\* safety-mode-active to false, and they become true again only in a tick
\* that dispatches; a plan command of the supervisor's own system changes
\* no state.
C6_ExternalPlanControlClears ==
    [][/\ (ev'.op = "PlanControl" /\ ev'.src # system_id) =>
              (~m_issued' /\ ~m_safety')
       /\ (ev'.op = "PlanControl" /\ ev'.src = system_id) =>
              UNCHANGED state
       /\ (~m_issued /\ m_issued') =>
              (ev'.op = "task" /\ out' # <<>> /\ out' # <<"safety_zone">>)
       /\ (~m_safety /\ m_safety') =>
              (ev'.op = "task" /\ out' = <<"safety_zone">>)]_vars

\* A plan command of another system arrived while the supervisor had a
\* command outstanding, and cleared it.
C6_Witness ==
    /\ ev.op = "PlanControl"
    /\ ev.src # system_id
    /\ ev.changed
    /\ ~m_issued /\ ~m_safety

\* C7: a medium update that reports underwater resets the lost comms
\* timer, which is then not overflowed; one that reports unknown, air or
\* water surface leaves the timer as it was.
C7_UnderwaterResetsLostComms ==
    [][(ev'.op = "VehicleMedium") =>
           IF m_medium' = "underwater"
           THEN m_lost_coms_timer' = 0 /\ ~LostCommsOverflowed'
           ELSE m_lost_coms_timer' = m_lost_coms_timer]_vars

\* An underwater update arrived with the timer overflowed and reset it.
C7_Witness ==
    /\ ev.op = "VehicleMedium"
    /\ m_medium = "underwater"
    /\ ev.was_lost >= m_args.timeout
    /\ m_lost_coms_timer = 0

\* C8: on a tick where the medium is unknown or air nothing is dispatched
\* and no field of the task and no reported status changes.
C8_OutOfWaterNoAction ==
    [][(ev'.op = "task" /\ m_medium \in {"unknown", "air"}) =>
           (out' = <<>> /\ UNCHANGED state)]_vars

\* A tick ran in air with all data present, the link lost, the vehicle far
\* from the safety position and idle in service or error.
C8_Witness ==
    /\ ev.op = "task"
    /\ m_medium = "air"
    /\ AllSeen
    /\ LostCommsOverflowed /\ ~m_is_near /\ m_serv_err /\ PhaseIdle
    /\ out = <<>>

\* C9: safety_zone is dispatched only when the last position update placed
\* the vehicle more than 50 from the safety position; with no position
\* update consumed it is never dispatched.
C9_SafetyZoneOnlyWhenFar ==
    out = <<"safety_zone">> => h_dist > 50

\* safety_zone was dispatched after a position update beyond the threshold.
C9_Witness ==
    /\ ev.op = "task"
    /\ out = <<"safety_zone">>
    /\ h_dist = MaxDist

\* C10: a heartbeat of the vehicle itself, or of a sender without the
\* console bit, changes no state; any other heartbeat resets the lost comms
\* timer and changes nothing else.
C10_HeartbeatFrame ==
    [][(ev'.op = "Heartbeat") =>
           IF ev'.src = system_id \/ ~HasConsoleBit(ev'.src)
           THEN UNCHANGED state
           ELSE m_lost_coms_timer' = 0 /\ UNCHANGED state_but_lost]_vars

\* A console heartbeat arrived with the timer overflowed and reset it.
C10_Witness ==
    /\ ev.op = "Heartbeat"
    /\ ev.src # system_id /\ HasConsoleBit(ev.src)
    /\ ev.was_lost >= m_args.timeout
    /\ m_lost_coms_timer = 0

\* The identifiers the supervisor may dispatch.
PlanIds == {"safety_zone", "sk", "surface", "safety_sk", "safety_surface"}
\* Every field of the task but the lost communications timer and m_safety.
state_but_lost_safety == <<m_fail_timer, m_medium, m_serv_err, m_pcs, m_dr,
                           m_is_near, m_issued, m_args, system_id,
                           entity_state>>

\* C11: the readiness bits are all clear at startup, and a bit that is set
\* is never cleared by a signal update or a tick.
C11_ReadinessMonotonic ==
    /\ m_dr = 0
    /\ [][\A bit \in {1, 2, 4} :
              ((m_dr \div bit) % 2 = 1) => ((m_dr' \div bit) % 2 = 1)]_vars

\* A booting vehicle state arrived with the readiness set complete, set
\* service-or-error to false and left the set complete.
C11_Witness ==
    /\ ev.op = "VehicleState"
    /\ ev.mode = "VS_BOOT"
    /\ ev.changed
    /\ m_dr = 7

\* C12: every tick dispatches at most one request, and every identifier
\* dispatched is one of safety_zone, sk, surface, safety_sk, safety_surface.
C12_OneKnownPlan ==
    /\ Len(out) <= 1
    /\ \A i \in 1 .. Len(out) : out[i] \in PlanIds

\* A tick dispatched the plain surface plan.
C12_Witness ==
    /\ ev.op = "task"
    /\ Len(out) = 1
    /\ out[1] = "surface"

\* C13: a tick with an unsafe verdict resets the lost comms timer, sets
\* safety-mode-active, dispatches exactly safety_zone and changes nothing
\* else: command-issued, the fail-retry timer and the status are unchanged.
C13_UnsafeTickFrame ==
    [][(ev'.op = "task" /\ PassesGuard /\ UnsafeVerdict) =>
           /\ m_lost_coms_timer' = 0
           /\ m_safety'
           /\ out' = <<"safety_zone">>
           /\ UNCHANGED state_but_lost_safety]_vars

\* An unsafe tick ran with a hold command outstanding and a failure
\* reported, and left command-issued and the status as they were.
C13_Witness ==
    /\ ev.op = "task"
    /\ out = <<"safety_zone">>
    /\ m_safety
    /\ m_lost_coms_timer = 0
    /\ m_issued /\ entity_state = "CODE_ACTIVE"
    /\ LastOutcomeFailure /\ FailRetryOverflowed

\* The exit of step 3 where the fail-retry timer is reset and the flag of
\* the medium then turns out to be disabled.
FailedExitAfterReset ==
    /\ PassesGuard /\ ~UnsafeVerdict
    /\ m_args.sk \/ m_args.asc
    /\ m_serv_err /\ PhaseIdle
    /\ LastOutcomeFailure /\ FailRetryOverflowed
    /\ ~HoldAllowed

\* C14 as stated: a tick that dispatches nothing leaves command-issued,
\* safety-mode-active, the readiness bits and both timers as they were.
C14_NoDispatchNoChange ==
    [][(ev'.op = "task" /\ out' = <<>>) =>
           UNCHANGED <<m_issued, m_safety, m_dr, m_lost_coms_timer,
                       m_fail_timer>>]_vars

\* C14 amended: a tick that dispatches nothing leaves command-issued,
\* safety-mode-active, the readiness bits and the lost comms timer as they
\* were; it leaves the fail-retry timer as it was too, except at the exit
\* after a failure with the timer overflowed and the flag of the medium
\* disabled, where the timer is reset.
C14_NoDispatchFrame ==
    [][(ev'.op = "task" /\ out' = <<>>) =>
           /\ UNCHANGED <<m_issued, m_safety, m_dr, m_lost_coms_timer>>
           /\ m_fail_timer' = IF FailedExitAfterReset THEN 0
                              ELSE m_fail_timer]_vars

\* A tick underwater with ascend disabled dispatched nothing and reset the
\* overflowed fail-retry timer.
C14_Witness ==
    /\ ev.op = "task"
    /\ out = <<>>
    /\ ev.changed
    /\ m_fail_timer = 0
    /\ m_medium = "underwater" /\ ~m_args.asc /\ m_args.sk
    /\ LastOutcomeFailure

\* The standing conditions of C15: readiness complete, vehicle in water
\* and far from the safety position, idle in service or error, safety mode
\* not active.
DriftingUnsupervised ==
    /\ AllSeen
    /\ m_medium \in {"water", "underwater"}
    /\ ~m_is_near
    /\ m_serv_err /\ PhaseIdle
    /\ ~m_safety
\* The last step consumed a heartbeat that proves the link to a console.
ConsoleHeartbeatArrived ==
    ev.op = "Heartbeat" /\ ev.src # system_id /\ HasConsoleBit(ev.src)
\* The last step consumed a medium update that reports underwater.
UnderwaterUpdateArrived ==
    ev.op = "VehicleMedium" /\ m_medium = "underwater"

\* C15 as stated: while the standing conditions last and no console
\* heartbeat arrives, with medium updates of either in-water medium
\* arriving, safety_zone is eventually dispatched.
C15_SafetyZoneEventually ==
    DriftingUnsupervised ~>
        (out = <<"safety_zone">> \/ ~DriftingUnsupervised
            \/ ConsoleHeartbeatArrived)

\* C15 amended: while the standing conditions last, no console heartbeat
\* arrives and no medium update reports underwater, safety_zone is
\* eventually dispatched.
C15_SafetyZoneEventuallyAtSurface ==
    DriftingUnsupervised ~>
        (out = <<"safety_zone">> \/ ~DriftingUnsupervised
            \/ ConsoleHeartbeatArrived \/ UnderwaterUpdateArrived)

\* safety_zone was dispatched at the surface for a vehicle far from the
\* safety position and idle in service or error, no command of its own
\* outstanding.
C15_Witness ==
    /\ ev.op = "task"
    /\ out = <<"safety_zone">>
    /\ m_medium = "water"
    /\ h_dist = MaxDist
    /\ m_serv_err /\ PhaseIdle
    /\ ~m_issued

\* The hold plans.
HoldPlanIds == {"sk", "surface", "safety_sk", "safety_surface"}

C17_BootingVehicleState ==
    [][/\ (ev'.op = "VehicleState" /\ ev'.mode = "VS_BOOT") =>
              (m_dr' = m_dr /\ ~m_serv_err')
       /\ (ev'.op = "VehicleState" /\ ev'.mode # "VS_BOOT") =>
              /\ (m_dr' \div 1) % 2 = 1
              /\ m_serv_err' <=> ev'.mode \in {"VS_SERVICE", "VS_ERROR"}
       /\ ("vstate" \notin h_seen /\ ev'.op = "task") => out' = <<>>]_vars

\* A tick ran in water, far from the safety position with the link lost,
\* after medium and plan control state had come but only booting vehicle
\* states, and dispatched nothing.
C17_Witness ==
    /\ ev.op = "task"
    /\ h_seen = {"medium", "pcs"}
    /\ m_dr = 6
    /\ m_medium = "water"
    /\ ~m_is_near /\ LostCommsOverflowed /\ PhaseIdle
    /\ out = <<>>

\* C18: with keep station and ascend both disabled the supervisor dispatches
\* nothing but safety_zone, never sets command-issued, never resets the
\* fail-retry timer in a tick and never reports the active status.
C18_NoHoldConfigured ==
    [][(~m_args.sk /\ ~m_args.asc) =>
           /\ out' \in {<<>>, <<"safety_zone">>}
           /\ ~m_issued'
           /\ entity_state' = "CODE_IDLE"
           /\ ev'.op = "task" => m_fail_timer' = m_fail_timer]_vars

\* With both flags disabled a tick ran with a safe verdict for a vehicle in
\* water, idle in service or error after a failure, the fail-retry timer
\* overflowed, and did nothing.
C18_Witness ==
    /\ ~m_args.sk /\ ~m_args.asc
    /\ ev.op = "task"
    /\ PassesGuard
    /\ m_serv_err /\ PhaseIdle
    /\ LastOutcomeFailure /\ FailRetryOverflowed
    /\ out = <<>>

\* C19: a safety_sk or safety_surface dispatch comes at least the
\* fail-retry threshold of 60 s after the previous such dispatch.
C19_RetrySpacing ==
    (out \in {<<"safety_sk">>, <<"safety_surface">>} /\ ev.was_retry # -1)
        => ev.was_retry >= 60

\* An escalated hold plan was dispatched for the second time or later.
C19_Witness ==
    /\ ev.op = "task"
    /\ out = <<"safety_sk">>
    /\ ev.was_retry >= 60
    /\ h_retry = 0

\* C20: safety-mode-active is true only if safety_zone was dispatched after
\* the last plan command of another system, command-issued only if a hold
\* plan was; both are false at startup; while command-issued is true the
\* reported status is active.
C20_FlagsHaveCause ==
    /\ m_safety => h_zone
    /\ m_issued => h_hold
    /\ ev.op = "init" => (~m_safety /\ ~m_issued)
    /\ m_issued => entity_state = "CODE_ACTIVE"

\* Both commands of the supervisor are outstanding.
C20_Witness ==
    /\ m_safety /\ h_zone
    /\ m_issued /\ h_hold
    /\ entity_state = "CODE_ACTIVE"

====
